---- MODULE Spec2Model ----
(***************************************************************************)
(* A model of calvinkuo/image-utils: the levels-matching engine.           *)
(*                                                                         *)
(*   match.py   match_images  : per-band fits on a thread pool   (Spec)    *)
(*   match.py   match_array   : histogram-seeded full-pixel fit  (SpecArray)*)
(*   level.py   level_array   : the tone curve                   (SpecLevel)*)
(*   modes.py   determine_common_mode / superset_mode            (SpecModes)*)
(*                                                                         *)
(* Every specification owns its variables and leaves the others alone.     *)
(***************************************************************************)
EXTENDS Integers, Sequences, FiniteSets, TLC

VARIABLES
    \* ---- match_images ----
    pc,          \* position of the match_images call
    in_x_size,   \* size (w, h) of argument x as passed
    in_y_size,   \* size (w, h) of argument y as passed
    x_size,      \* size of the image currently bound to the name x
    y_size,      \* size of the image currently bound to the name y
    resized,     \* which of "x", "y" went through Image.resize
    x_nbands,    \* number of bands of x
    y_nbands,    \* number of bands of y
    histogram,   \* the histogram keyword argument
    pool,        \* "none" | "open" | "shutdown" : the ThreadPoolExecutor
    futures,     \* the futures list, in submission order
    completed,   \* indices of the futures in the order their tasks completed
    results,     \* the list being built by [future.result() for future in futures]
    nread,       \* number of future.result() calls that have been made
    printed,     \* the lines printed, as <<band, parameters>>
    exc,         \* the exception in flight or raised, or NoExc
    ret,         \* the value returned to the caller, or NoRet
    \* ---- match_array ----
    ma_pc, ma_size, ma_samples, ma_xtol, ma_calls, ma_p0, ma_out,
    \* ---- level_array ----
    lv_pc, lv_args, lv_out,
    \* ---- determine_common_mode ----
    dm_pc, dm_images, dm_i, common_mode, dm_log

matchVars == <<pc, in_x_size, in_y_size, x_size, y_size, resized, x_nbands, y_nbands,
               histogram, pool, futures, completed, results, nread, printed, exc, ret>>
arrayVars == <<ma_pc, ma_size, ma_samples, ma_xtol, ma_calls, ma_p0, ma_out>>
levelVars == <<lv_pc, lv_args, lv_out>>
modeVars  == <<dm_pc, dm_images, dm_i, common_mode, dm_log>>
vars == <<matchVars, arrayVars, levelVars, modeVars>>

\* ------------------------------------------------------------------ bounds
MaxDim == 2
MaxBands == 3
Workers == 2

Min(a, b) == IF a <= b THEN a ELSE b

NoExc == [type |-> "none", band |-> 0]
NoRet == <<"no return">>

\* ================================================================ match.py
\* ------------------------------------------------------------ match_images

\* new_size = min(x.size[0], y.size[0]), min(x.size[1], y.size[1])
NewSizeMax(xs, ys) == <<IF xs[1] >= ys[1] THEN xs[1] ELSE ys[1],
                        IF xs[2] >= ys[2] THEN xs[2] ELSE ys[2]>>
NewSize(xs, ys) == <<Min(xs[1], ys[1]), Min(xs[2], ys[2])>>

\* match = match_array if not histogram else match_histogram
MatchSwapped(h) == IF ~h THEN "match_histogram" ELSE "match_array"
Match(h) == IF ~h THEN "match_array" ELSE "match_histogram"

\* zip(x.split(), y.split()) stops at the shorter of the two band lists
NPairs == Min(x_nbands, y_nbands)

\* The parameters a fitter computes from band xb of x and band yb of y: the
\* optimum is a function of the strategy and of the two arrays it was handed.
Fit(fn, xb, yb) == [fn |-> fn, x |-> xb, y |-> yb]

\* (0, 1, 0, 1, 1): the identity levels adjustment
Identity == [fn |-> "identity", x |-> 0, y |-> 0]

\* The task of band pair i, as submitted: executor.submit(match, asarray(x), asarray(y))
Task(i) == [fn |-> Match(histogram), xband |-> i, yband |-> i,
            xshape |-> x_size, yshape |-> y_size,
            state |-> "pending", value |-> Identity, error |-> NoExc]

Complete(f) == f.state \in {"done", "failed"}
AllComplete == \A i \in 1..Len(futures) : Complete(futures[i])
Running == {i \in 1..Len(futures) : futures[i].state = "running"}

\* ThreadPoolExecutor.__exit__ is shutdown(wait=True): it returns once every
\* submitted task has run to completion.
ShutdownNoWait == TRUE
ShutdownWait == AllComplete

\* The k-th element of the comprehension reads futures[k].
FutureToReadAsCompleted(k) == IF k <= Len(completed) THEN completed[k] ELSE k
FutureToRead(k) == k

\* future.result(): the task's return value, or its exception re-raised.
FutureResultOrIdentity(f) == [raised |-> FALSE,
                              value |-> IF f.state = "failed" THEN Identity ELSE f.value,
                              error |-> NoExc]
FutureResult(f) == [raised |-> f.state = "failed", value |-> f.value, error |-> f.error]

Sizes == (1..MaxDim) \X (1..MaxDim)

MatchInit ==
    /\ pc = "start"
    /\ in_x_size \in Sizes /\ in_y_size \in Sizes
    /\ x_size = in_x_size /\ y_size = in_y_size
    /\ resized = {}
    /\ x_nbands \in 1..MaxBands /\ y_nbands \in 1..MaxBands
    /\ histogram \in BOOLEAN
    /\ pool = "none"
    /\ futures = <<>> /\ completed = <<>> /\ results = <<>> /\ nread = 0
    /\ printed = <<>>
    /\ exc = NoExc /\ ret = NoRet

\* lines 76-80: resize both images down when their sizes differ
Resize ==
    /\ pc = "start"
    /\ IF x_size # y_size
       THEN /\ x_size' = NewSize(x_size, y_size)
            /\ y_size' = NewSize(x_size, y_size)
            /\ resized' = {"x", "y"}
       ELSE UNCHANGED <<x_size, y_size, resized>>
    /\ pc' = "with"
    /\ UNCHANGED <<in_x_size, in_y_size, x_nbands, y_nbands, histogram, pool, futures,
                   completed, results, nread, printed, exc, ret,
                   arrayVars, levelVars, modeVars>>

\* lines 79-80: Image.resize raises; nothing has been created yet
ResizeRaises ==
    /\ pc = "start"
    /\ x_size # y_size
    /\ exc' = [type |-> "resize", band |-> 0]
    /\ pc' = "raised"
    /\ UNCHANGED <<in_x_size, in_y_size, x_size, y_size, resized, x_nbands, y_nbands,
                   histogram, pool, futures, completed, results, nread, printed, ret,
                   arrayVars, levelVars, modeVars>>

\* line 83: with concurrent.futures.ThreadPoolExecutor() as executor
EnterWith ==
    /\ pc = "with"
    /\ pool' = "open"
    /\ pc' = "split"
    /\ UNCHANGED <<in_x_size, in_y_size, x_size, y_size, resized, x_nbands, y_nbands,
                   histogram, futures, completed, results, nread, printed, exc, ret,
                   arrayVars, levelVars, modeVars>>

\* line 89: zip(x.split(), y.split()) is evaluated before the first submit
Split ==
    /\ pc = "split"
    /\ pc' = "submit"
    /\ UNCHANGED <<in_x_size, in_y_size, x_size, y_size, resized, x_nbands, y_nbands,
                   histogram, pool, futures, completed, results, nread, printed, exc, ret,
                   arrayVars, levelVars, modeVars>>

\* line 89: Image.split raises inside the with block
SplitRaises ==
    /\ pc = "split"
    /\ exc' = [type |-> "split", band |-> 0]
    /\ pc' = "exit"
    /\ UNCHANGED <<in_x_size, in_y_size, x_size, y_size, resized, x_nbands, y_nbands,
                   histogram, pool, futures, completed, results, nread, printed, ret,
                   arrayVars, levelVars, modeVars>>

\* line 88: one executor.submit per band pair, in band order
Submit ==
    /\ pc = "submit"
    /\ Len(futures) < NPairs
    /\ futures' = Append(futures, Task(Len(futures) + 1))
    /\ UNCHANGED <<pc, in_x_size, in_y_size, x_size, y_size, resized, x_nbands, y_nbands,
                   histogram, pool, completed, results, nread, printed, exc, ret,
                   arrayVars, levelVars, modeVars>>

\* line 88: np.asarray or executor.submit raises for the next band pair
SubmitRaises ==
    /\ pc = "submit"
    /\ Len(futures) < NPairs
    /\ exc' = [type |-> "submit", band |-> Len(futures) + 1]
    /\ pc' = "exit"
    /\ UNCHANGED <<in_x_size, in_y_size, x_size, y_size, resized, x_nbands, y_nbands,
                   histogram, pool, futures, completed, results, nread, printed, ret,
                   arrayVars, levelVars, modeVars>>

\* lines 88-89: the comprehension is exhausted, the with block ends
EndSubmit ==
    /\ pc = "submit"
    /\ Len(futures) = NPairs
    /\ pc' = "exit"
    /\ UNCHANGED <<in_x_size, in_y_size, x_size, y_size, resized, x_nbands, y_nbands,
                   histogram, pool, futures, completed, results, nread, printed, exc, ret,
                   arrayVars, levelVars, modeVars>>

\* a pool worker thread picks a queued task
WorkerStart(i) ==
    /\ pool # "none"
    /\ i \in 1..Len(futures)
    /\ futures[i].state = "pending"
    /\ Cardinality(Running) < Workers
    /\ futures' = [futures EXCEPT ![i].state = "running"]
    /\ UNCHANGED <<pc, in_x_size, in_y_size, x_size, y_size, resized, x_nbands, y_nbands,
                   histogram, pool, completed, results, nread, printed, exc, ret,
                   arrayVars, levelVars, modeVars>>

\* match_array hands xdata and ydata of the two shapes to curve_fit, which
\* cannot pair them when the lengths differ; match_histogram reduces both
\* arrays to the same number of quantiles first.
ShapeMismatch(f) == f.fn = "match_array" /\ f.xshape # f.yshape

\* the fit of task i returns its parameters
WorkerReturns(i) ==
    /\ i \in 1..Len(futures)
    /\ futures[i].state = "running"
    /\ ~ShapeMismatch(futures[i])
    /\ futures' = [futures EXCEPT ![i].state = "done",
                                  ![i].value = Fit(futures[i].fn, futures[i].xband,
                                                   futures[i].yband)]
    /\ completed' = Append(completed, i)
    /\ UNCHANGED <<pc, in_x_size, in_y_size, x_size, y_size, resized, x_nbands, y_nbands,
                   histogram, pool, results, nread, printed, exc, ret,
                   arrayVars, levelVars, modeVars>>

\* the fit of task i raises: curve_fit did not converge, or the shapes differ
WorkerRaises(i) ==
    /\ i \in 1..Len(futures)
    /\ futures[i].state = "running"
    /\ futures' = [futures EXCEPT ![i].state = "failed",
                                  ![i].error = [type |-> IF ShapeMismatch(futures[i])
                                                         THEN "shape" ELSE "fit",
                                                band |-> i]]
    /\ completed' = Append(completed, i)
    /\ UNCHANGED <<pc, in_x_size, in_y_size, x_size, y_size, resized, x_nbands, y_nbands,
                   histogram, pool, results, nread, printed, exc, ret,
                   arrayVars, levelVars, modeVars>>

\* line 83: leaving the with block shuts the pool down, then an exception
\* raised inside the block propagates
ExitWith ==
    /\ pc = "exit"
    /\ ShutdownWait
    /\ pool' = "shutdown"
    /\ pc' = IF exc # NoExc THEN "raised" ELSE "collect"
    /\ UNCHANGED <<in_x_size, in_y_size, x_size, y_size, resized, x_nbands, y_nbands,
                   histogram, futures, completed, results, nread, printed, exc, ret,
                   arrayVars, levelVars, modeVars>>

\* line 92: the next future.result() of the comprehension
Collect ==
    /\ pc = "collect"
    /\ Len(results) < Len(futures)
    /\ LET f == futures[FutureToRead(Len(results) + 1)]
           r == FutureResult(f)
       IN  /\ Complete(f)
           /\ nread' = nread + 1
           /\ IF r.raised
              THEN /\ exc' = r.error
                   /\ pc' = "raised"
                   /\ UNCHANGED results
              ELSE /\ results' = Append(results, r.value)
                   /\ UNCHANGED <<pc, exc>>
    /\ UNCHANGED <<in_x_size, in_y_size, x_size, y_size, resized, x_nbands, y_nbands,
                   histogram, pool, futures, completed, printed, ret,
                   arrayVars, levelVars, modeVars>>

\* lines 93-96: print one line per band of x that has a result, return results
PrintAndReturn ==
    /\ pc = "collect"
    /\ Len(results) = Len(futures)
    /\ printed' = [b \in 1..Min(x_nbands, Len(results)) |-> <<b, results[b]>>]
    /\ ret' = results
    /\ pc' = "returned"
    /\ UNCHANGED <<in_x_size, in_y_size, x_size, y_size, resized, x_nbands, y_nbands,
                   histogram, pool, futures, completed, results, nread, exc,
                   arrayVars, levelVars, modeVars>>

Next ==
    \/ Resize
    \/ ResizeRaises
    \/ EnterWith
    \/ Split
    \/ SplitRaises
    \/ Submit
    \/ SubmitRaises
    \/ EndSubmit
    \/ \E i \in 1..MaxBands : WorkerStart(i)
    \/ \E i \in 1..MaxBands : WorkerReturns(i)
    \/ \E i \in 1..MaxBands : WorkerRaises(i)
    \/ ExitWith
    \/ Collect
    \/ PrintAndReturn

\* ------------------------------------------------------------- match_array
MaxSize == 3
MaxSamples == 2
DefaultTolDen == 1024
SeedTolDen == 256

\* xtol is 1 / (its denominator); the caller may pass any tolerance
TolDens == {SeedTolDen, DefaultTolDen, 4 * DefaultTolDen}

\* p0=[0, 1, 0, 1, 1]
IdentityP0 == <<0, 1, 0, 1, 1>>

\* parameter vectors curve_fit may come back with: the identity, a gamma
\* curve, an inverted curve
SomePopt == {<<0, 1, 0, 1, 1>>, <<0, 1, 0, 1, 2>>, <<1, 0, 1, 0, 1>>}

\* match_histogram(x, y, xtol=..., samples=...): one curve_fit over the two
\* quantile vectors of length samples, started from the identity
MatchHistogramCall(xtol, samples) ==
    [fn |-> "match_histogram", xtol |-> xtol, samples |-> samples,
     n |-> samples, p0 |-> IdentityP0]

\* curve_fit(level_array, xdata, ydata, method='dogbox', xtol=xtol, p0=p0, ...)
\* over the n raveled pixels
CurveFitCall(xtol, n, p0) ==
    [fn |-> "curve_fit", xtol |-> xtol, samples |-> 0, n |-> n, p0 |-> p0]

\* if x.size > samples
NeedsSeedAtLeast(size, samples) == size >= samples
NeedsSeed(size, samples) == size > samples

\* xtol=1 / 256 for the seeding fit
SeedTol(xtol) == SeedTolDen

\* xtol=xtol for the full-pixel fit
FullTol(xtol) == xtol

ArrayInit ==
    /\ ma_pc = "start"
    /\ ma_size \in 0..MaxSize
    /\ ma_samples \in 0..MaxSamples
    /\ ma_xtol \in TolDens
    /\ ma_calls = <<>>
    /\ ma_p0 = <<>>
    /\ ma_out = NoRet

\* lines 54-55, x.size > samples: the histogram fit returns the seed
SeedFromHistogram ==
    /\ ma_pc = "start"
    /\ NeedsSeed(ma_size, ma_samples)
    /\ ma_calls' = Append(ma_calls, MatchHistogramCall(SeedTol(ma_xtol), ma_samples))
    /\ \E p \in SomePopt : ma_p0' = p
    /\ ma_pc' = "fit"
    /\ UNCHANGED <<ma_size, ma_samples, ma_xtol, ma_out, matchVars, levelVars, modeVars>>

\* lines 54-55, x.size > samples: the histogram fit raises
SeedRaises ==
    /\ ma_pc = "start"
    /\ NeedsSeed(ma_size, ma_samples)
    /\ ma_calls' = Append(ma_calls, MatchHistogramCall(SeedTol(ma_xtol), ma_samples))
    /\ ma_out' = <<"raised", "match_histogram">>
    /\ ma_pc' = "raised"
    /\ UNCHANGED <<ma_size, ma_samples, ma_xtol, ma_p0, matchVars, levelVars, modeVars>>

\* lines 54-55, otherwise: p0 = [0, 1, 0, 1, 1]
DefaultSeed ==
    /\ ma_pc = "start"
    /\ ~NeedsSeed(ma_size, ma_samples)
    /\ ma_p0' = IdentityP0
    /\ ma_pc' = "fit"
    /\ UNCHANGED <<ma_size, ma_samples, ma_xtol, ma_calls, ma_out,
                   matchVars, levelVars, modeVars>>

\* lines 58-64: the full-pixel fit returns
FullFit ==
    /\ ma_pc = "fit"
    /\ ma_calls' = Append(ma_calls, CurveFitCall(FullTol(ma_xtol), ma_size, ma_p0))
    /\ \E p \in SomePopt : ma_out' = p
    /\ ma_pc' = "done"
    /\ UNCHANGED <<ma_size, ma_samples, ma_xtol, ma_p0, matchVars, levelVars, modeVars>>

\* lines 62-63: the full-pixel fit raises
FullFitRaises ==
    /\ ma_pc = "fit"
    /\ ma_calls' = Append(ma_calls, CurveFitCall(FullTol(ma_xtol), ma_size, ma_p0))
    /\ ma_out' = <<"raised", "curve_fit">>
    /\ ma_pc' = "raised"
    /\ UNCHANGED <<ma_size, ma_samples, ma_xtol, ma_p0, matchVars, levelVars, modeVars>>

ArrayNext ==
    \/ SeedFromHistogram
    \/ SeedRaises
    \/ DefaultSeed
    \/ FullFit
    \/ FullFitRaises

\* ================================================================ level.py
\* ------------------------------------------------------------- level_array
\* array and the four points are multiples of 1/Grid in [0, 1]; gamma is a
\* whole number 0..MaxGamma.  A float is a fraction n/d (d > 0), nan, or an
\* infinity, with numpy's arithmetic on them.
Grid == 2
MaxGamma == 2

Num(n, d) == [k |-> "num", n |-> n, d |-> d]
NaN == [k |-> "nan", n |-> 0, d |-> 1]
PosInf == [k |-> "inf", n |-> 1, d |-> 1]
NegInf == [k |-> "inf", n |-> -1, d |-> 1]

\* a / b in numpy float arithmetic: x/0 is +-inf, 0/0 is nan
FDiv(a, b) == IF b = 0
              THEN (IF a = 0 THEN NaN ELSE IF a > 0 THEN PosInf ELSE NegInf)
              ELSE IF b > 0 THEN Num(a, b) ELSE Num(-a, -b)

\* np.clip(v, 0, 1): nan stays nan, the infinities go to the nearer end
Clip01(v) == IF v.k = "nan" THEN NaN
             ELSE IF v.k = "inf" THEN (IF v.n > 0 THEN Num(1, 1) ELSE Num(0, 1))
             ELSE IF v.n < 0 THEN Num(0, 1)
             ELSE IF v.n > v.d THEN Num(1, 1)
             ELSE v

\* t ** gamma for t in [0, 1] or nan: anything ** 0 is 1, nan and 0 included
FPow(t, g) == IF g = 0 THEN Num(1, 1)
              ELSE IF t.k = "nan" THEN NaN
              ELSE Num(t.n ^ g, t.d ^ g)

\* t * (output_white - output_black) + output_black
Rescale(t, ob, ow) == IF t.k = "nan" THEN NaN
                      ELSE Num(t.n * (ow - ob) + ob * t.d, t.d * Grid)

level_array(x, ib, iw, ob, ow, g) ==
    Clip01(Rescale(FPow(Clip01(FDiv(x - ib, iw - ib)), g), ob, ow))

LevelInit ==
    /\ lv_pc = "start"
    /\ lv_args \in [x : 0..Grid, ib : 0..Grid, iw : 0..Grid,
                    ob : 0..Grid, ow : 0..Grid, gamma : 0..MaxGamma]
    /\ lv_out = NoRet

Level ==
    /\ lv_pc = "start"
    /\ lv_out' = level_array(lv_args.x, lv_args.ib, lv_args.iw,
                             lv_args.ob, lv_args.ow, lv_args.gamma)
    /\ lv_pc' = "done"
    /\ UNCHANGED <<lv_args, matchVars, arrayVars, modeVars>>

LevelNext ==
    \/ Level

\* ================================================================ modes.py
MaxImages == 2

\* the dict, and the order its keys are iterated in
ModeOrder == <<"1", "L", "LA", "P", "RGB", "PA", "RGBA">>
SUPPORTED_MODES ==
    [m \in {"1", "L", "LA", "P", "RGB", "PA", "RGBA"} |->
        CASE m = "1"    -> {"1"}
          [] m = "L"    -> {"1", "L"}
          [] m = "LA"   -> {"1", "L", "LA"}
          [] m = "P"    -> {}
          [] m = "RGB"  -> {"1", "L", "P", "RGB"}
          [] m = "PA"   -> {}
          [] m = "RGBA" -> {"1", "L", "LA", "P", "PA", "RGB", "RGBA"}]
GRAYSCALE_MODES == {"1", "L", "LA"}
ALPHA_CHANNEL_MODES == {"LA", "PA", "RGBA"}

\* An image: its mode, the mode of its palette ("none" without one), whether
\* every pixel (or palette colour in use) is gray, whether some alpha value is
\* below 255.
Img(m, p, g, a) == [mode |-> m, palette |-> p, gray |-> g, alpha |-> a]
Images ==
    {Img(m, "none", TRUE, FALSE) : m \in {"1", "L", "I", "F", "I;16"}}
    \cup {Img(m, "none", TRUE, a) : m \in {"LA", "La"}, a \in BOOLEAN}
    \cup {Img("P", "L", TRUE, FALSE)}
    \cup {Img("P", p, g, FALSE) : p \in {"RGB", "RGBA"}, g \in BOOLEAN}
    \cup {Img("PA", "L", TRUE, a) : a \in BOOLEAN}
    \cup {Img("PA", p, g, a) : p \in {"RGB", "RGBA"}, g \in BOOLEAN, a \in BOOLEAN}
    \cup {Img(m, "none", g, FALSE) : m \in {"RGB", "CMYK"}, g \in BOOLEAN}
    \cup {Img(m, "none", g, a) : m \in {"RGBA", "RGBa"}, g \in BOOLEAN, a \in BOOLEAN}

\* is_grayscale: "True", "False", or "raise" for the ValueError
is_grayscale(image) ==
    IF image.mode \in GRAYSCALE_MODES THEN "True"
    ELSE IF image.palette # "none"
         THEN IF image.palette \in GRAYSCALE_MODES THEN "True"
              ELSE IF image.palette # "RGB" /\ image.mode # "RGBA" THEN "raise"
              ELSE IF image.gray THEN "True" ELSE "False"
    ELSE IF image.mode # "RGB" /\ image.mode # "RGBA" THEN "raise"
    ELSE IF image.gray THEN "True" ELSE "False"

has_alpha(image) == image.mode \in ALPHA_CHANNEL_MODES /\ image.alpha

\* the first key, in dict order from position k, that supports both modes
RECURSIVE FirstCommon(_, _, _)
FirstCommon(k, mode_1, mode_2) ==
    IF k > Len(ModeOrder) THEN "None"
    ELSE IF mode_1 \in SUPPORTED_MODES[ModeOrder[k]]
            /\ mode_2 \in SUPPORTED_MODES[ModeOrder[k]]
         THEN ModeOrder[k]
         ELSE FirstCommon(k + 1, mode_1, mode_2)

superset_mode_no_search(mode_1, mode_2) ==
    IF mode_2 \in SUPPORTED_MODES[mode_1] THEN mode_1 ELSE mode_2
superset_mode(mode_1, mode_2) ==
    IF mode_2 \in SUPPORTED_MODES[mode_1] THEN mode_1
    ELSE IF mode_1 \in SUPPORTED_MODES[mode_2] THEN mode_2
    ELSE FirstCommon(1, mode_1, mode_2)

\* lines 109-117: the fallback for a mode that is no key of SUPPORTED_MODES
Fallback(m) ==
    IF m \in DOMAIN SUPPORTED_MODES THEN m
    ELSE IF m = "La" THEN "LA"
    ELSE IF m = "RGBa" THEN "RGBA"
    ELSE IF m = "I" \/ m = "F" \/ m \in {"I;16"} THEN "L"
    ELSE "RGB"

\* lines 124-125: image.convert(current_mode) keeps what the target mode can
\* hold of the image's colour and alpha
Convert(image, m) ==
    IF image.mode = m THEN image
    ELSE Img(m, "none",
             image.gray \/ m \in GRAYSCALE_MODES,
             image.alpha /\ m \in ALPHA_CHANNEL_MODES)

\* line 128: the actual mode of the image data
EmpiricalMode(image) ==
    (IF is_grayscale(image) = "True" THEN "L" ELSE "RGB")
        \o (IF has_alpha(image) THEN "A" ELSE "")

RECURSIVE SeqsUpTo(_, _)
SeqsUpTo(S, n) ==
    IF n = 0 THEN {<<>>}
    ELSE LET shorter == SeqsUpTo(S, n - 1)
         IN  shorter \cup {Append(s, e) : s \in {t \in shorter : Len(t) = n - 1}, e \in S}

ModesInit ==
    /\ dm_pc = "loop"
    /\ dm_images \in SeqsUpTo(Images, MaxImages)
    /\ dm_i = 1
    /\ common_mode = "1"
    /\ dm_log = <<>>

\* lines 105-129, one pass of the loop body that leaves common_mode alone
KeepMode ==
    /\ dm_pc = "loop"
    /\ dm_i <= Len(dm_images)
    /\ Fallback(dm_images[dm_i].mode) \in SUPPORTED_MODES[common_mode]
    /\ dm_log' = Append(dm_log, "kept")
    /\ dm_i' = dm_i + 1
    /\ UNCHANGED <<dm_pc, dm_images, common_mode, matchVars, arrayVars, levelVars>>

\* lines 105-129, one pass that widens common_mode by the empirical mode
WidenMode ==
    /\ dm_pc = "loop"
    /\ dm_i <= Len(dm_images)
    /\ LET current_mode == Fallback(dm_images[dm_i].mode)
           image == Convert(dm_images[dm_i], current_mode)
       IN  /\ current_mode \notin SUPPORTED_MODES[common_mode]
           /\ is_grayscale(image) # "raise"
           /\ common_mode' = superset_mode(common_mode, EmpiricalMode(image))
           /\ dm_log' = Append(dm_log, EmpiricalMode(image))
           /\ dm_pc' = IF common_mode' \in DOMAIN SUPPORTED_MODES THEN "loop" ELSE "raised"
    /\ dm_i' = dm_i + 1
    /\ UNCHANGED <<dm_images, matchVars, arrayVars, levelVars>>

\* lines 46, 57: is_grayscale raises ValueError out of the loop
GrayscaleRaises ==
    /\ dm_pc = "loop"
    /\ dm_i <= Len(dm_images)
    /\ LET current_mode == Fallback(dm_images[dm_i].mode)
           image == Convert(dm_images[dm_i], current_mode)
       IN  /\ current_mode \notin SUPPORTED_MODES[common_mode]
           /\ is_grayscale(image) = "raise"
    /\ dm_pc' = "raised"
    /\ UNCHANGED <<dm_images, dm_i, common_mode, dm_log, matchVars, arrayVars, levelVars>>

\* line 130: return common_mode
ReturnMode ==
    /\ dm_pc = "loop"
    /\ dm_i > Len(dm_images)
    /\ dm_pc' = "returned"
    /\ UNCHANGED <<dm_images, dm_i, common_mode, dm_log, matchVars, arrayVars, levelVars>>

ModesNext ==
    \/ KeepMode
    \/ WidenMode
    \/ GrayscaleRaises
    \/ ReturnMode

\* ========================================================== specifications
ArrayIdle == ma_pc = "idle" /\ ma_size = 0 /\ ma_samples = 0 /\ ma_xtol = 0
             /\ ma_calls = <<>> /\ ma_p0 = <<>> /\ ma_out = NoRet
LevelIdle == lv_pc = "idle" /\ lv_args = <<>> /\ lv_out = NoRet
ModesIdle == dm_pc = "idle" /\ dm_images = <<>> /\ dm_i = 0 /\ common_mode = "1"
             /\ dm_log = <<>>
MatchIdle == /\ pc = "idle"
             /\ in_x_size = <<1, 1>> /\ in_y_size = <<1, 1>>
             /\ x_size = <<1, 1>> /\ y_size = <<1, 1>>
             /\ resized = {} /\ x_nbands = 1 /\ y_nbands = 1 /\ histogram = FALSE
             /\ pool = "none" /\ futures = <<>> /\ completed = <<>> /\ results = <<>>
             /\ nread = 0 /\ printed = <<>> /\ exc = NoExc /\ ret = NoRet

Init == MatchInit /\ ArrayIdle /\ LevelIdle /\ ModesIdle
Spec == Init /\ [][Next]_vars

InitArray == ArrayInit /\ MatchIdle /\ LevelIdle /\ ModesIdle
SpecArray == InitArray /\ [][ArrayNext]_vars

InitLevel == LevelInit /\ MatchIdle /\ ArrayIdle /\ ModesIdle
SpecLevel == InitLevel /\ [][LevelNext]_vars

InitModes == ModesInit /\ MatchIdle /\ ArrayIdle /\ LevelIdle
SpecModes == InitModes /\ [][ModesNext]_vars


\* ================================================================== claims
Terminal == pc \in {"returned", "raised"}
Failed == {i \in 1..Len(futures) : futures[i].state = "failed"}
LowestFailed == CHOOSE i \in Failed : \A j \in Failed : i <= j
MinSize == <<IF in_x_size[1] <= in_y_size[1] THEN in_x_size[1] ELSE in_y_size[1],
             IF in_x_size[2] <= in_y_size[2] THEN in_x_size[2] ELSE in_y_size[2]>>
Strategy == IF histogram THEN "match_histogram" ELSE "match_array"

\* C1: whatever the order in which the per-band fits complete, the list being
\* collected and the list returned by match_images hold at position i the
\* fit computed from band i of x and band i of y, one position per band pair.
C1_ChannelOrder ==
    /\ \A i \in 1..Len(results) : results[i].x = i /\ results[i].y = i
    /\ pc = "returned" =>
          /\ Len(ret) = NPairs
          /\ \A i \in 1..Len(ret) : ret[i].x = i /\ ret[i].y = i

\* a call that returned at least two fits whose tasks did not complete in
\* band order
C1_Witness ==
    /\ pc = "returned"
    /\ Len(ret) >= 2
    /\ completed[1] # 1

\* C2: once the fit of some band has failed nothing is ever returned or
\* printed; the call ends raising, and what it raises is the failure of the
\* lowest failed band (or the error that already left the with block); no
\* identity parameters stand in for a failed band.
C2_FailFast ==
    /\ Failed # {} => ret = NoRet /\ printed = <<>>
    /\ \A i \in 1..Len(results) : results[i] # Identity
    /\ (Terminal /\ Failed # {}) =>
          /\ pc = "raised"
          /\ exc # NoExc
          /\ exc.type # "submit" => exc = [type |-> "fit", band |-> LowestFailed]

\* the call raised the fit failure of one band although another band's fit
\* had succeeded
C2_Witness ==
    /\ pc = "raised"
    /\ exc.type = "fit"
    /\ \E i \in 1..Len(futures) : futures[i].state = "done"
    /\ ret = NoRet

\* C3: no future's result is read, nothing is printed and nothing is returned
\* while a submitted fit is still pending or running, or a band pair is still
\* to be submitted.
C3_BlocksUntilAllDone ==
    (nread > 0 \/ results # <<>> \/ printed # <<>> \/ ret # NoRet) =>
        /\ AllComplete
        /\ Len(futures) = NPairs

\* the first result of a call with several band pairs has just been read
C3_Witness ==
    /\ pc = "collect"
    /\ nread = 1
    /\ Len(futures) >= 2

\* C4: with different numbers of bands in x and y no fit task is ever
\* submitted, nothing is returned, and the call ends raising an invalid-input
\* error.
C4_InvalidInput ==
    x_nbands # y_nbands =>
        /\ futures = <<>>
        /\ ret = NoRet
        /\ Terminal => (pc = "raised" /\ exc.type = "invalid_input")

\* C5: every fit task is handed two arrays of the same shape, the element-wise
\* minimum of the two image sizes, and none fails on a shape mismatch; images
\* of equal size are never resized, images of different size are both resized
\* to that minimum before the pool is entered.
C5_ResizeToMin ==
    /\ \A i \in 1..Len(futures) :
          /\ futures[i].xshape = MinSize
          /\ futures[i].yshape = MinSize
          /\ futures[i].error.type # "shape"
    /\ in_x_size = in_y_size => resized = {}
    /\ (in_x_size # in_y_size /\ pc # "start" /\ exc.type # "resize") =>
          /\ resized = {"x", "y"}
          /\ x_size = MinSize
          /\ y_size = MinSize

\* images of which neither has the minimum size, and a full-pixel fit on
\* their resized bands has returned
C5_Witness ==
    /\ in_x_size[1] < in_y_size[1]
    /\ in_x_size[2] > in_y_size[2]
    /\ ~histogram
    /\ \E i \in 1..Len(futures) : futures[i].state = "done"

\* C6: task i is the fit of band pair i, there is at most one task per pair
\* and exactly one per pair once submission is over; every task runs
\* match_array when histogram is false and match_histogram when it is true;
\* the returned list has one entry per band pair (per band when x and y have
\* the same bands), each computed by that strategy.
C6_OneTaskPerPair ==
    /\ Len(futures) <= NPairs
    /\ \A i \in 1..Len(futures) :
          /\ futures[i].xband = i
          /\ futures[i].yband = i
          /\ futures[i].fn = Strategy
    /\ pc \in {"collect", "returned"} => Len(futures) = NPairs
    /\ pc = "returned" =>
          /\ Len(ret) = NPairs
          /\ x_nbands = y_nbands => Len(ret) = x_nbands
          /\ \A i \in 1..Len(ret) : ret[i].fn = Strategy

\* a histogram call on images with the same several bands has returned
C6_Witness ==
    /\ pc = "returned"
    /\ histogram
    /\ x_nbands = y_nbands
    /\ Len(ret) = x_nbands
    /\ Len(ret) >= 2

\* C7: there is no pool before the with statement; when the call has ended,
\* by return or by raise, the pool is not open and no task is pending or
\* running, and unless the resize raised (before the pool existed) the pool
\* has been shut down.
C7_PoolScoped ==
    /\ pc \in {"start", "with"} => pool = "none"
    /\ Terminal =>
          /\ pool # "open"
          /\ AllComplete
          /\ exc.type # "resize" => pool = "shutdown"

\* the call raised a submission error after at least one task had been
\* submitted, and the pool is shut down
C7_Witness ==
    /\ pc = "raised"
    /\ exc.type = "submit"
    /\ Len(futures) >= 1
    /\ pool = "shutdown"

\* C8: for x, the four points in [0, 1] and gamma >= 0, level_array returns a
\* number in [0, 1], never nan or an infinity.
C8_UnitRange ==
    lv_pc = "done" =>
        /\ lv_out.k = "num"
        /\ 0 <= lv_out.n
        /\ lv_out.n <= lv_out.d

C10_Seeding ==
    LET seeded == ma_size > ma_samples
        hist == [fn |-> "match_histogram", xtol |-> 256, samples |-> ma_samples,
                 n |-> ma_samples, p0 |-> <<0, 1, 0, 1, 1>>]
        full == [fn |-> "curve_fit", xtol |-> ma_xtol, samples |-> 0,
                 n |-> ma_size, p0 |-> ma_p0]
    IN  /\ ma_pc = "fit" =>
              /\ ma_calls = IF seeded THEN <<hist>> ELSE <<>>
              /\ ~seeded => ma_p0 = <<0, 1, 0, 1, 1>>
        /\ (ma_pc = "done" \/ ma_out = <<"raised", "curve_fit">>) =>
              /\ ma_calls = IF seeded THEN <<hist, full>> ELSE <<full>>
              /\ ~seeded => ma_p0 = <<0, 1, 0, 1, 1>>
        /\ ma_out = <<"raised", "match_histogram">> =>
              /\ seeded
              /\ ma_pc = "raised"
              /\ ma_calls = <<hist>>

\* a full-pixel fit has returned after a histogram fit seeded it with
\* parameters other than the identity, under a tolerance other than 1/256
C10_Witness ==
    /\ ma_pc = "done"
    /\ Len(ma_calls) = 2
    /\ ma_p0 # <<0, 1, 0, 1, 1>>
    /\ ma_xtol # 256

====
